---- MODULE Spec2Model ----
(***************************************************************************)
(* Screwie: the Telegram message printer of screwie.py.                    *)
(*                                                                         *)
(* One inbound update is followed from its arrival through handle_start or *)
(* handle_message to the end of the handler, together with the external    *)
(* printer command that handle_message launches without waiting.           *)
(* Strings are sequences of one-character strings.                         *)
(***************************************************************************)
EXTENDS Integers, Sequences, FiniteSets, TLC

VARIABLES
    allowed_users,      \* config: the ids of allowed_users
    delete_temp_files,  \* config: delete_temp_files (fallback True)
    has_printer_script, \* config: whether printer_script is present
    pc,                 \* position of the handler
    handler,            \* "none", "start" or "message"
    sender,             \* update.effective_user.id
    has_username,       \* update.effective_user.username is not None
    username,           \* update.effective_user.username
    has_text,           \* update.message.text is not None
    msg_text,           \* update.message.text
    date_hour,          \* update.message.date (hour of the day)
    text,               \* the formatted document
    lines,              \* the wrapped lines
    lineSrc,            \* for each wrapped line, the index of its source line
    line_height,        \* font.getbbox('A')[3] - font.getbbox('A')[1]
    img,                \* the canvas: [made, w, h]
    drawn,              \* the draw.text calls on the canvas: [x, y, text]
    tmp,                \* the temp file: "none", "exists" or "deleted"
    tmp_saved,          \* img.save wrote the PNG into the temp file
    save_failed,        \* img.save raised
    popen_calls,        \* number of subprocess.Popen calls
    launch_failed,      \* building or starting the command raised
    child,              \* the launched command: "none", "running", "opened", "open_failed"
    replies,            \* reply_text calls, in order
    log,                \* logging calls made by the handlers
    exc                 \* the exception that left the handler, or "none"

vars == <<allowed_users, delete_temp_files, has_printer_script, pc, handler,
          sender, has_username, username, has_text, msg_text, date_hour, text,
          lines, lineSrc, line_height, img, drawn, tmp, tmp_saved, save_failed,
          popen_calls, launch_failed, child, replies, log, exc>>

config == <<allowed_users, delete_temp_files, has_printer_script>>
message == <<handler, sender, has_username, username, has_text, msg_text, date_hour>>
layout == <<text, lines, lineSrc, line_height, img, drawn>>
dispatch == <<tmp, tmp_saved, save_failed, popen_calls, launch_failed, child>>

-----------------------------------------------------------------------------
(* Bounds of the model *)

MaxLen == 4          \* longest message body under Spec, in characters
MaxWrapLen == 8      \* longest message body under WrapSpec, in characters
MaxUserId == 2       \* user ids are 1..MaxUserId
MaxLineHeight == 2   \* line heights are 1..MaxLineHeight

(* Constants of handle_message *)

width == 384
padding == 8
spacing == 8

-----------------------------------------------------------------------------
(* Strings *)

Alphabet == {"a", " ", "\n"}

UserIds == 1 .. MaxUserId

StringsUpTo(n) == UNION {[1 .. m -> Alphabet] : m \in 0 .. n}

Bodies == StringsUpTo(MaxLen)

LongBodies == StringsUpTo(MaxWrapLen) \ {<<>>}

Usernames == {<<"a">>}

DateHours == {23}

StartCommand == <<"/", "s", "t", "a", "r", "t">>

WelcomeReply == "Welcome!"

PrivateReply == "Sorry, this bot is private."

NoImg == [made |-> FALSE, w |-> 0, h |-> 0]

IsSpace(c) == c \in {" ", "\n"}

\* str.splitlines(): a line break ends a line; no empty last line
RECURSIVE SplitLinesFrom(_, _, _, _)
SplitLinesFrom(s, i, cur, acc) ==
    IF i > Len(s)
    THEN IF cur = <<>> THEN acc ELSE Append(acc, cur)
    ELSE IF s[i] = "\n"
         THEN SplitLinesFrom(s, i + 1, <<>>, Append(acc, cur))
         ELSE SplitLinesFrom(s, i + 1, Append(cur, s[i]), acc)

SplitLines(s) == SplitLinesFrom(s, 1, <<>>, <<>>)

\* str.split(): the maximal runs of non-whitespace characters
RECURSIVE SplitFrom(_, _, _, _)
SplitFrom(s, i, cur, acc) ==
    IF i > Len(s)
    THEN IF cur = <<>> THEN acc ELSE Append(acc, cur)
    ELSE IF IsSpace(s[i])
         THEN SplitFrom(s, i + 1, <<>>, IF cur = <<>> THEN acc ELSE Append(acc, cur))
         ELSE SplitFrom(s, i + 1, Append(cur, s[i]), acc)

Split(s) == SplitFrom(s, 1, <<>>, <<>>)

\* str.strip(): without leading and trailing whitespace
Strip(s) ==
    LET keep == {i \in 1 .. Len(s) : ~IsSpace(s[i])}
    IN  IF keep = {} THEN <<>>
        ELSE LET lo == CHOOSE i \in keep : \A j \in keep : i <= j
                 hi == CHOOSE i \in keep : \A j \in keep : j <= i
             IN  SubSeq(s, lo, hi)

\* advance width of one character under the font
CharWidth(c) ==
    CASE c = "a" -> 100
      [] c = " " -> 80
      [] c = "\n" -> 0
      [] OTHER -> 100

\* draw.textlength(text, font): the sum of the advance widths
RECURSIVE TextLength(_)
TextLength(s) == IF s = <<>> THEN 0 ELSE CharWidth(Head(s)) + TextLength(Tail(s))

Digit(n) == CASE n = 0 -> "0" [] n = 1 -> "1" [] n = 2 -> "2" [] n = 3 -> "3"
              [] n = 4 -> "4" [] n = 5 -> "5" [] n = 6 -> "6" [] n = 7 -> "7"
              [] n = 8 -> "8" [] n = 9 -> "9"

\* date.astimezone(UTC).isoformat(), reduced to the hour field
IsoFormat(h) == <<"T", Digit(h \div 10), Digit(h % 10)>>

-----------------------------------------------------------------------------
(* The pure parts of the handlers *)

IsAuthorizedEmptyAllowsAll(id) == allowed_users = {} \/ id \in allowed_users

\* update.effective_user.id in allowed_users
IsAuthorized(id) == id \in allowed_users

TruthyNotNone(has, s) == has

\* if update.message.text:
Truthy(has, s) == has /\ s # <<>>

\* the document: timestamp, sender name, blank line, body
FormatText(h, name, body) ==
    IsoFormat(h) \o <<"\n">> \o name \o <<"\n", "\n">> \o body

BudgetNoPadding == width

\* width - 2 * padding
Budget == width - 2 * padding

OverflowDropsLine(out, current_line, word) == [out |-> out, cur |-> word]

\* else: lines.append(current_line); current_line = word
Overflow(out, current_line, word) == [out |-> Append(out, current_line), cur |-> word]

\* for word in words: ... ; lines.append(current_line)
RECURSIVE WrapWords(_, _, _, _)
WrapWords(words, i, current_line, out) ==
    IF i > Len(words)
    THEN Append(out, current_line)
    ELSE LET test_line == Strip(current_line \o <<" ">> \o words[i])
             length == TextLength(test_line)
         IN  IF length <= Budget
             THEN WrapWords(words, i + 1, test_line, out)
             ELSE LET o == Overflow(out, current_line, words[i])
                  IN  WrapWords(words, i + 1, o.cur, o.out)

\* the lines emitted for one source line
WrapLine(line) == WrapWords(Split(line), 1, <<>>, <<>>)

\* for line in text.splitlines(): the lines, each tagged with its source line
RECURSIVE WrapAll(_, _, _)
WrapAll(src, k, acc) ==
    IF k > Len(src)
    THEN acc
    ELSE LET out == WrapLine(src[k])
         IN  WrapAll(src, k + 1,
                     acc \o [j \in 1 .. Len(out) |-> [line |-> out[j], src |-> k]])

CanvasHeightNoPadding(lh, n) == (lh + spacing) * n

\* height = (line_height + spacing) * len(lines) + 2 * padding
CanvasHeight(lh, n) == (lh + spacing) * n + 2 * padding

\* y = padding; for line in lines: draw.text(xy=(padding, y), ...); y += line_height + spacing
RECURSIVE DrawLines(_, _, _, _, _)
DrawLines(ls, i, y, lh, acc) ==
    IF i > Len(ls)
    THEN acc
    ELSE DrawLines(ls, i + 1, y + lh + spacing, lh,
                   Append(acc, [x |-> padding, y |-> y, text |-> ls[i]]))

CloseTempKeeps(delete) == "exists"

\* leaving the with block of NamedTemporaryFile(delete=...)
CloseTemp(delete) == IF delete THEN "deleted" ELSE "exists"

CaughtOnlyOSError(e) == e \in {"FileNotFoundError", "PermissionError"}

\* except Exception as e:
Caught(e) == e \in {"KeyError", "FileNotFoundError", "PermissionError"}

\* what building the command and subprocess.Popen can raise
LaunchOutcomes ==
    IF has_printer_script
    THEN {"none", "FileNotFoundError", "PermissionError"}
    ELSE {"KeyError"}

-----------------------------------------------------------------------------
(* The state machine *)

Init ==
    /\ allowed_users \in SUBSET UserIds
    /\ delete_temp_files \in BOOLEAN
    /\ has_printer_script \in BOOLEAN
    /\ pc = "Idle"
    /\ handler = "none"
    /\ sender = 0
    /\ has_username = FALSE
    /\ username = <<>>
    /\ has_text = FALSE
    /\ msg_text = <<>>
    /\ date_hour = 0
    /\ text = <<>>
    /\ lines = <<>>
    /\ lineSrc = <<>>
    /\ line_height = 0
    /\ img = NoImg
    /\ drawn = <<>>
    /\ tmp = "none"
    /\ tmp_saved = FALSE
    /\ save_failed = FALSE
    /\ popen_calls = 0
    /\ launch_failed = FALSE
    /\ child = "none"
    /\ replies = <<>>
    /\ log = {}
    /\ exc = "none"

\* the dispatcher hands a /start command to handle_start
ReceiveStart ==
    /\ pc = "Idle"
    /\ handler' = "start"
    /\ sender' \in UserIds
    /\ \/ has_username' = FALSE /\ username' = <<>>
       \/ has_username' = TRUE /\ username' \in Usernames
    /\ has_text' = TRUE
    /\ msg_text' = StartCommand
    /\ date_hour' \in DateHours
    /\ pc' = "StartAuthorizing"
    /\ UNCHANGED <<config, layout, dispatch, replies, log, exc>>

\* the dispatcher hands any other update to handle_message
ReceiveMessage ==
    /\ pc = "Idle"
    /\ handler' = "message"
    /\ sender' \in UserIds
    /\ \/ has_username' = FALSE /\ username' = <<>>
       \/ has_username' = TRUE /\ username' \in Usernames
    /\ \/ has_text' = FALSE /\ msg_text' = <<>>
       \/ has_text' = TRUE /\ msg_text' \in Bodies
    /\ date_hour' \in DateHours
    /\ pc' = "Authorizing"
    /\ UNCHANGED <<config, layout, dispatch, replies, log, exc>>

\* handle_start
Start ==
    /\ pc = "StartAuthorizing"
    /\ IF IsAuthorized(sender)
       THEN /\ replies' = Append(replies, WelcomeReply)
            /\ log' = log
            /\ pc' = "Done"
       ELSE /\ replies' = Append(replies, PrivateReply)
            /\ log' = log \cup {"denied"}
            /\ pc' = "Denied"
    /\ UNCHANGED <<config, message, layout, dispatch, exc>>

\* handle_message: if update.effective_user.id in allowed_users ... else
Authorize ==
    /\ pc = "Authorizing"
    /\ IF IsAuthorized(sender)
       THEN /\ pc' = "Formatting"
            /\ log' = log
       ELSE /\ pc' = "Denied"
            /\ log' = log \cup {"denied"}
    /\ UNCHANGED <<config, message, layout, dispatch, replies, exc>>

\* handle_message: if update.message.text: build the document
Format ==
    /\ pc = "Formatting"
    /\ IF ~Truthy(has_text, msg_text)
       THEN /\ pc' = "Skipped"
            /\ UNCHANGED <<text, exc>>
       ELSE IF ~has_username
            THEN \* None + '\n\n' raises TypeError
                 /\ pc' = "Raised"
                 /\ exc' = "TypeError"
                 /\ text' = text
            ELSE /\ text' = FormatText(date_hour, username, msg_text)
                 /\ pc' = "Wrapping"
                 /\ exc' = exc
    /\ UNCHANGED <<config, message, lines, lineSrc, line_height, img, drawn,
                   dispatch, replies, log>>

\* handle_message: the wrapping loop
Wrap ==
    /\ pc = "Wrapping"
    /\ LET tagged == WrapAll(SplitLines(text), 1, <<>>)
       IN  /\ lines' = [j \in 1 .. Len(tagged) |-> tagged[j].line]
           /\ lineSrc' = [j \in 1 .. Len(tagged) |-> tagged[j].src]
    /\ pc' = "Rendering"
    /\ UNCHANGED <<config, message, text, line_height, img, drawn, dispatch,
                   replies, log, exc>>

\* handle_message: allocate the canvas and draw the lines
Render ==
    /\ pc = "Rendering"
    /\ \E lh \in 1 .. MaxLineHeight :
          /\ line_height' = lh
          /\ img' = [made |-> TRUE, w |-> width, h |-> CanvasHeight(lh, Len(lines))]
          /\ drawn' = DrawLines(lines, 1, padding, lh, <<>>)
    /\ pc' = "Dispatching"
    /\ UNCHANGED <<config, message, text, lines, lineSrc, dispatch, replies, log, exc>>

\* handle_message: with tempfile.NamedTemporaryFile(...) as tmp
CreateTemp ==
    /\ pc = "Dispatching"
    /\ tmp' = "exists"
    /\ pc' = "Saving"
    /\ UNCHANGED <<config, message, layout, tmp_saved, save_failed, popen_calls,
                   launch_failed, child, replies, log, exc>>

\* handle_message: img.save(fp=tmp.name, format='PNG') succeeds
SaveOk ==
    /\ pc = "Saving"
    /\ tmp_saved' = TRUE
    /\ log' = log \cup {"saved"}
    /\ pc' = "Launching"
    /\ UNCHANGED <<config, message, layout, tmp, save_failed, popen_calls,
                   launch_failed, child, replies, exc>>

\* handle_message: img.save raises; the with block closes the file and the
\* exception leaves the handler
SaveFail ==
    /\ pc = "Saving"
    /\ save_failed' = TRUE
    /\ tmp' = CloseTemp(delete_temp_files)
    /\ exc' = "OSError"
    /\ pc' = "Raised"
    /\ UNCHANGED <<config, message, layout, tmp_saved, popen_calls,
                   launch_failed, child, replies, log>>

\* handle_message: try: cmd = ...; subprocess.Popen(cmd) except Exception
Launch ==
    /\ pc = "Launching"
    /\ \E e \in LaunchOutcomes :
          /\ popen_calls' = IF e = "KeyError" THEN popen_calls ELSE popen_calls + 1
          /\ IF e = "none"
             THEN /\ child' = "running"
                  /\ log' = log \cup {"calling"}
                  /\ pc' = "Closing"
                  /\ UNCHANGED <<launch_failed, tmp, exc>>
             ELSE /\ launch_failed' = TRUE
                  /\ child' = child
                  /\ IF Caught(e)
                     THEN /\ log' = log \cup {"launch_failed"} \cup
                                    (IF e = "KeyError" THEN {} ELSE {"calling"})
                          /\ pc' = "Closing"
                          /\ UNCHANGED <<tmp, exc>>
                     ELSE /\ log' = log \cup
                                    (IF e = "KeyError" THEN {} ELSE {"calling"})
                          /\ tmp' = CloseTemp(delete_temp_files)
                          /\ exc' = e
                          /\ pc' = "Raised"
    /\ UNCHANGED <<config, message, layout, tmp_saved, save_failed, replies>>

\* handle_message: the with block ends and the handler returns
Close ==
    /\ pc = "Closing"
    /\ tmp' = CloseTemp(delete_temp_files)
    /\ pc' = "Done"
    /\ UNCHANGED <<config, message, layout, tmp_saved, save_failed, popen_calls,
                   launch_failed, child, replies, log, exc>>

\* the launched command opens the file named by its last argument
ChildOpen ==
    /\ child = "running"
    /\ child' = IF tmp = "exists" THEN "opened" ELSE "open_failed"
    /\ UNCHANGED <<config, message, layout, pc, tmp, tmp_saved, save_failed,
                   popen_calls, launch_failed, replies, log, exc>>

Next ==
    \/ ReceiveStart
    \/ ReceiveMessage
    \/ Start
    \/ Authorize
    \/ Format
    \/ Wrap
    \/ Render
    \/ CreateTemp
    \/ SaveOk
    \/ SaveFail
    \/ Launch
    \/ Close
    \/ ChildOpen

Spec == Init /\ [][Next]_vars

-----------------------------------------------------------------------------
(* The wrapping loop on longer bodies: handle_message stands at the loop with
   the document of an authorized sender's message formatted *)

InitWrap ==
    /\ allowed_users = {1}
    /\ delete_temp_files = TRUE
    /\ has_printer_script = TRUE
    /\ pc = "Wrapping"
    /\ handler = "message"
    /\ sender = 1
    /\ has_username = TRUE
    /\ username \in Usernames
    /\ has_text = TRUE
    /\ msg_text \in LongBodies
    /\ date_hour \in DateHours
    /\ text = FormatText(date_hour, username, msg_text)
    /\ lines = <<>>
    /\ lineSrc = <<>>
    /\ line_height = 0
    /\ img = NoImg
    /\ drawn = <<>>
    /\ tmp = "none"
    /\ tmp_saved = FALSE
    /\ save_failed = FALSE
    /\ popen_calls = 0
    /\ launch_failed = FALSE
    /\ child = "none"
    /\ replies = <<>>
    /\ log = {}
    /\ exc = "none"

NextWrap == Wrap

WrapSpec == InitWrap /\ [][NextWrap]_vars

-----------------------------------------------------------------------------
(* Helpers of the properties *)

\* the wrapping loop has run
Wrapped ==
    \/ pc \in {"Rendering", "Dispatching", "Saving", "Launching", "Closing", "Done"}
    \/ pc = "Raised" /\ exc # "TypeError"

\* the words of a sequence of lines, in order
RECURSIVE FlatWords(_)
FlatWords(ls) == IF ls = <<>> THEN <<>> ELSE Split(Head(ls)) \o FlatWords(Tail(ls))

\* the lines emitted for source line k, in emission order
RECURSIVE EmittedFor(_, _, _)
EmittedFor(k, j, acc) ==
    IF j > Len(lines)
    THEN acc
    ELSE EmittedFor(k, j + 1, IF lineSrc[j] = k THEN Append(acc, lines[j]) ELSE acc)

\* the handler has made none of the effects of the print path
NoPrintEffects ==
    /\ text = <<>>
    /\ lines = <<>>
    /\ ~img.made
    /\ drawn = <<>>
    /\ tmp = "none"
    /\ ~tmp_saved
    /\ popen_calls = 0
    /\ child = "none"

-----------------------------------------------------------------------------
(* Properties *)

\* C1: handle_message goes past the authorization check exactly when the
\* sender id is in allowed_users (the empty set lets nobody through); for an
\* id that is not listed nothing is formatted, rendered, written or launched.
C1_AccessGate ==
    (handler = "message" /\ pc \notin {"Idle", "Authorizing"}) =>
        /\ (pc # "Denied") <=> (sender \in allowed_users)
        /\ (sender \notin allowed_users) => NoPrintEffects

C1_Witness ==
    handler = "message" /\ pc = "Denied" /\ allowed_users = {}

\* C2: every line emitted by the wrapping loop measures at most
\* width - 2 * padding or is exactly one word that is itself longer than that;
\* no emitted line of two or more words exceeds the budget.
C2_WrapWidth ==
    \A j \in 1 .. Len(lines) :
        \/ TextLength(lines[j]) <= width - 2 * padding
        \/ /\ Len(Split(lines[j])) = 1
           /\ TextLength(Split(lines[j])[1]) > width - 2 * padding

C2_Witness ==
    /\ Wrapped
    /\ \E j \in 1 .. Len(lines) - 1 :
          /\ Len(Split(lines[j])) >= 2
          /\ lineSrc[j + 1] = lineSrc[j]
    /\ \E j \in 1 .. Len(lines) : TextLength(lines[j]) > width - 2 * padding

\* C3: every run of a handler that reaches Denied has sent the reply that
\* tells the sender the bot is private.
C3_DeniedHasReplied ==
    pc = "Denied" => \E i \in 1 .. Len(replies) : replies[i] = PrivateReply

\* C4: a message of an authorized sender whose text is absent or empty ends
\* in Skipped, with no canvas, no temp file, no launched command and no reply.
C4_EmptyBodySkip ==
    (handler = "message" /\ sender \in allowed_users
        /\ (~has_text \/ msg_text = <<>>)) =>
        /\ pc \in {"Authorizing", "Formatting", "Skipped"}
        /\ NoPrintEffects
        /\ replies = <<>>
        /\ exc = "none"

C4_Witness ==
    handler = "message" /\ pc = "Skipped" /\ has_text /\ msg_text = <<>>

\* C5: once the dispatch step has ended, on any of its exit paths, the temp
\* file it created is gone when delete_temp_files is true and is still there
\* when delete_temp_files is false.
C5_TempFileRetention ==
    (pc \in {"Done", "Raised"} /\ tmp # "none") =>
        /\ delete_temp_files => tmp = "deleted"
        /\ ~delete_temp_files => tmp = "exists"

C5_Witness ==
    pc = "Raised" /\ save_failed /\ delete_temp_files /\ tmp = "deleted"

\* C6: a failure to start the printer command is caught and logged inside
\* handle_message: no exception leaves the handler, no reply is sent and no
\* second launch is attempted.
C6_LaunchFailureCaught ==
    launch_failed =>
        /\ exc = "none"
        /\ pc \in {"Closing", "Done"}
        /\ "launch_failed" \in log
        /\ replies = <<>>
        /\ popen_calls <= 1
        /\ child = "none"

C6_Witness ==
    launch_failed /\ pc = "Done" /\ ~has_printer_script

\* C7: a failure to serialize the canvas is recovered inside handle_message:
\* it does not leave the handler, and the temp file is released.
C7_SerializationRecovered ==
    save_failed =>
        /\ exc = "none"
        /\ pc # "Raised"
        /\ delete_temp_files => tmp = "deleted"

\* C8: the canvas height is (line_height + spacing) * line_count + 2 * padding,
\* line i (from 0) is drawn at y = padding + i * (line_height + spacing), and
\* every line's vertical extent lies inside the canvas.
C8_HeightLaw ==
    img.made =>
        /\ img.h = (line_height + spacing) * Len(lines) + 2 * padding
        /\ Len(drawn) = Len(lines)
        /\ \A i \in 1 .. Len(lines) :
              /\ drawn[i].text = lines[i]
              /\ drawn[i].x = padding
              /\ drawn[i].y = padding + (i - 1) * (line_height + spacing)
              /\ drawn[i].y >= 0
              /\ drawn[i].y + line_height <= img.h

C8_Witness ==
    img.made /\ Len(lines) >= 5 /\ line_height = MaxLineHeight

\* C9: with delete_temp_files true, the temp file still exists whenever the
\* launched command opens it.
C9_FileExistsWhenOpened ==
    delete_temp_files => child # "open_failed"

\* C10: for every source line, the words of the lines emitted for it, in
\* emission order, are exactly the words of the source line in their order,
\* and every source line yields at least one emitted line.
C10_WordsPreserved ==
    Wrapped =>
        LET src == SplitLines(text)
        IN  /\ Len(lineSrc) = Len(lines)
            /\ \A j \in 1 .. Len(lines) : lineSrc[j] \in 1 .. Len(src)
            /\ \A j \in 1 .. Len(lines) - 1 : lineSrc[j] <= lineSrc[j + 1]
            /\ \A k \in 1 .. Len(src) :
                  LET out == EmittedFor(k, 1, <<>>)
                  IN  /\ Len(out) >= 1
                      /\ FlatWords(out) = Split(src[k])

C10_Witness ==
    /\ Wrapped
    /\ \E j \in 1 .. Len(lines) - 1 : lineSrc[j] = lineSrc[j + 1] /\ lines[j] # <<>>
    /\ \E k \in 1 .. Len(SplitLines(text)) :
          /\ Split(SplitLines(text)[k]) = <<>>
          /\ Len(EmittedFor(k, 1, <<>>)) = 1

====
